---- MODULE Spec2Model ----
(***************************************************************************)
(* Model of report/xml.py: the read-only views over a parsed JUnit XML     *)
(* document (_Outcome, _Testcase, _Testsuite, _Testsuites), the document   *)
(* adapters (_TestXmlFromJUnit, PytestXml) and the ReportPage context      *)
(* manager.                                                                *)
(***************************************************************************)
EXTENDS Integers, Sequences, FiniteSets, TLC

\* ---------------------------------------------------------------- bounds
MaxCount == 2        \* skipped / failures / errors range over 0..MaxCount
BigTotal == 10       \* one two-digit total next to 0..MaxCount
MaxDepth == 2        \* open `with` scopes over one ReportPage
MaxCycles == 3       \* releases of the ReportPage in one behaviour
MaxSuites == 2       \* suites in a document
MaxCases == 2        \* cases in a suite
MaxStatusCases == 3  \* cases of the one suite status() is applied to

VARIABLES
    report,      \* the parsed JUnitXml document: counters and suites
    content,     \* ReportPage._content
    depth,       \* history: `with` scopes over the page that are open
    cycles,      \* history: releases performed so far
    lastOp,      \* history: the last ReportPage call: enter, raise or exit
    prevOp,      \* history: the ReportPage call before the last one
    before,      \* history: ReportPage._content before the last call
    lastExc,     \* history: exception argument of the last __exit__
    firstContent,\* history: content after the first successful acquisition
    snapshot,    \* history: result of the last _Outcome.as_dict() call
    heap,        \* view objects by identity: cursor and backing collection
    doc,         \* the _TestXmlFromJUnit fields _testsuites and _outcome
    lastCall,    \* history: the last call on a view or document and its result
    yielded      \* history: per view object, the elements yielded so far

pageVars == <<content, depth, cycles, lastOp, prevOp, before, lastExc, firstContent,
              snapshot>>
viewVars == <<heap, doc, lastCall, yielded>>
vars == <<report, pageVars, viewVars>>

\* ------------------------------------------------------- parsed document
NoResult == "None"          \* case.result is None
EmptyResult == "empty"      \* a result object that is present but empty
FullResult == "failure"     \* a result object with content
Results == {NoResult, EmptyResult, FullResult}

RECURSIVE SeqsUpTo(_, _)
SeqsUpTo(S, n) ==
    IF n = 0 THEN {<<>>}
    ELSE LET shorter == SeqsUpTo(S, n - 1)
         IN  shorter \cup {Append(s, x) : s \in {t \in shorter : Len(t) = n - 1}, x \in S}

Totals == (0..MaxCount) \cup {BigTotal}
Counts == 0..MaxCount

\* ------------------------------------------------------------- _Outcome
total(rep) == rep.tests
skipped(rep) == rep.skipped
failed(rep) == rep.failures
errored(rep) == rep.errors

passed_clamped(rep) ==
    LET p == total(rep) - skipped(rep) - failed(rep) - errored(rep)
    IN  IF p < 0 THEN 0 ELSE p

passed(rep) == total(rep) - skipped(rep) - failed(rep) - errored(rep)

as_dict(rep) ==
    [total |-> total(rep), skipped |-> skipped(rep), failed |-> failed(rep),
     errored |-> errored(rep), passed |-> passed(rep)]

\* ------------------------------------------- formatting an int (f-string)
Digit(d) == SubSeq("0123456789", d + 1, d + 1)

RECURSIVE NatToStr(_)
NatToStr(n) == IF n < 10 THEN Digit(n) ELSE NatToStr(n \div 10) \o Digit(n % 10)

IntToStr(n) == IF n < 0 THEN "-" \o NatToStr(0 - n) ELSE NatToStr(n)

\* ----------------------------------------------------------- ReportPage
NoFault == "ok"
Faults == {"name", "total", "passed", "failed", "skipped", "errored"}

Title == "<h1>Test report:</h1>\n"

\* the result of a call: either a returned value or a raised exception
Return(v) == [raised |-> FALSE, value |-> v]
Raise == [raised |-> TRUE, value |-> ""]

build_results_table_reordered(rep, fault) ==
    IF fault # NoFault THEN Raise
    ELSE Return(Title
                \o "Total: " \o IntToStr(total(rep)) \o "\n"
                \o "Passed: " \o IntToStr(passed(rep)) \o "\n"
                \o "Skipped: " \o IntToStr(skipped(rep)) \o "\n"
                \o "Failed: " \o IntToStr(failed(rep)) \o "\n"
                \o "Errored: " \o IntToStr(errored(rep)) \o "\n")

build_results_table(rep, fault) ==
    IF fault # NoFault THEN Raise
    ELSE Return(Title
                \o "Total: " \o IntToStr(total(rep)) \o "\n"
                \o "Passed: " \o IntToStr(passed(rep)) \o "\n"
                \o "Failed: " \o IntToStr(failed(rep)) \o "\n"
                \o "Skipped: " \o IntToStr(skipped(rep)) \o "\n"
                \o "Errored: " \o IntToStr(errored(rep)) \o "\n")

enter_unguarded(c, rep, fault) ==
    LET r == build_results_table(rep, fault)
    IN  IF r.raised THEN Raise ELSE Return(c \o r.value)

enter_partial(c, rep, fault) ==
    IF c # "" THEN Return(c)
    ELSE LET r == build_results_table(rep, fault)
         IN  IF r.raised THEN [raised |-> TRUE, value |-> c \o Title]
             ELSE Return(c \o r.value)

\* __enter__: the new buffer, or the buffer left behind when the build raises
enter(c, rep, fault) ==
    IF c # "" THEN Return(c)
    ELSE LET r == build_results_table(rep, fault)
         IN  IF r.raised THEN [raised |-> TRUE, value |-> c]
             ELSE Return(c \o r.value)

exit_on_success_only(c, exc) == IF exc = "None" THEN "" ELSE c

exit_keep(c, exc) == c

\* __exit__: the new buffer
exit(c, exc) == ""

Excs == {"None", "Error"}

Enter(fault) ==
    /\ depth < MaxDepth
    /\ LET r == enter(content, report, fault)
       IN  /\ content' = r.value
           /\ lastOp' = IF r.raised THEN "raise" ELSE "enter"
           /\ depth' = IF r.raised THEN depth ELSE depth + 1
           /\ firstContent' = IF ~r.raised /\ firstContent = ""
                              THEN r.value ELSE firstContent
    /\ prevOp' = lastOp
    /\ before' = content
    /\ UNCHANGED <<report, cycles, lastExc, snapshot, viewVars>>

Exit(exc) ==
    /\ depth > 0
    /\ cycles < MaxCycles
    /\ content' = exit(content, exc)
    /\ depth' = depth - 1
    /\ cycles' = cycles + 1
    /\ lastOp' = "exit"
    /\ prevOp' = lastOp
    /\ lastExc' = exc
    /\ before' = content
    /\ UNCHANGED <<report, firstContent, snapshot, viewVars>>

NoSnapshot == [none |-> TRUE]

AsDict ==
    /\ snapshot' = as_dict(report)
    /\ UNCHANGED <<report, content, depth, cycles, lastOp, prevOp, before,
                   lastExc, firstContent, viewVars>>

InitPage ==
    /\ content = ""
    /\ depth = 0
    /\ cycles = 0
    /\ lastOp = "init"
    /\ prevOp = "init"
    /\ before = ""
    /\ lastExc = "None"
    /\ firstContent = ""
    /\ snapshot = NoSnapshot

\* ------------------------------------------------- views and documents
\* _testsuites and _outcome are built once, in _TestXmlFromJUnit.__init__:
\* object 1 is the _Testsuites view (cursor iter(xml) at the start), object 2
\* the _Outcome
InitViews ==
    /\ heap = <<[kind |-> "Testsuites", cursor |-> 0, src |-> 0],
                [kind |-> "Outcome", cursor |-> 0, src |-> 0]>>
    /\ doc = [testsuites |-> 1, outcome |-> 2]
    /\ lastCall = [op |-> "init", on |-> 0, stop |-> FALSE, value |-> 0]
    /\ yielded = <<<<>>, <<>>>>

\* an access: the object returned and the heap the access leaves behind
Access(ref, h) == [ref |-> ref, heap |-> h]

testsuites_rebuilt(h, d) ==
    Access(Len(h) + 1, Append(h, [kind |-> "Testsuites", cursor |-> 0, src |-> 0]))

\* _TestXmlFromJUnit.testsuites / .outcome
TestXmlFromJUnit_testsuites(h, d) == Access(d.testsuites, h)
TestXmlFromJUnit_outcome(h, d) == Access(d.outcome, h)

\* PytestXml.testsuites / .outcome delegate to the wrapped _TestXmlFromJUnit
PytestXml_testsuites(h, d) == TestXmlFromJUnit_testsuites(h, d)
PytestXml_outcome(h, d) == TestXmlFromJUnit_outcome(h, d)

\* _TestXmlFromJUnit.name is the document's own name, PytestXml.name the path
TestXmlFromJUnit_name(rep) == rep.name
PytestXml_name(rep) == rep.path

Vias == {"base", "wrapper"}

Grown(h) == [i \in 1..Len(h) |-> IF i <= Len(yielded) THEN yielded[i] ELSE <<>>]

GetTestsuites(via) ==
    /\ LET r == IF via = "base" THEN TestXmlFromJUnit_testsuites(heap, doc)
                ELSE PytestXml_testsuites(heap, doc)
       IN  /\ heap' = r.heap
           /\ yielded' = Grown(r.heap)
           /\ lastCall' = [op |-> "testsuites", on |-> via, stop |-> FALSE,
                           value |-> r.ref]
    /\ UNCHANGED <<report, doc, pageVars>>

GetOutcome(via) ==
    /\ LET r == IF via = "base" THEN TestXmlFromJUnit_outcome(heap, doc)
                ELSE PytestXml_outcome(heap, doc)
       IN  /\ heap' = r.heap
           /\ yielded' = Grown(r.heap)
           /\ lastCall' = [op |-> "outcome", on |-> via, stop |-> FALSE,
                           value |-> r.ref]
    /\ UNCHANGED <<report, doc, pageVars>>

GetName(via) ==
    /\ lastCall' = [op |-> "name", on |-> via, stop |-> FALSE,
                    value |-> IF via = "base" THEN TestXmlFromJUnit_name(report)
                              ELSE PytestXml_name(report)]
    /\ UNCHANGED <<report, heap, doc, yielded, pageVars>>

\* the collection a view iterates: the document's suites, or a suite's cases
Backing(view, rep) ==
    IF view.kind = "Testsuites" THEN [i \in 1..Len(rep.suites) |-> i]
    ELSE rep.suites[view.src]

\* next() on the stored iterator: the element and the advanced cursor, or
\* StopIteration with the cursor where it was
StopIteration(view) == [stop |-> TRUE, item |-> 0, view |-> view]

iter_next_wrapping(view, rep) ==
    LET xs == Backing(view, rep)
    IN  IF xs = <<>> THEN StopIteration(view)
        ELSE IF view.cursor >= Len(xs)
             THEN [stop |-> FALSE, item |-> xs[1], view |-> [view EXCEPT !.cursor = 1]]
             ELSE [stop |-> FALSE, item |-> xs[view.cursor + 1],
                   view |-> [view EXCEPT !.cursor = @ + 1]]

iter_next(view, rep) ==
    LET xs == Backing(view, rep)
    IN  IF view.cursor >= Len(xs) THEN StopIteration(view)
        ELSE [stop |-> FALSE, item |-> xs[view.cursor + 1],
              view |-> [view EXCEPT !.cursor = @ + 1]]

\* _Testsuites.__next__: wraps the next suite in a new _Testsuite view
SuitesNext(ref) ==
    /\ heap[ref].kind = "Testsuites"
    /\ LET r == iter_next(heap[ref], report)
       IN  IF r.stop
           THEN /\ lastCall' = [op |-> "next", on |-> ref, stop |-> TRUE, value |-> 0]
                /\ UNCHANGED <<heap, yielded>>
           ELSE /\ heap' = Append([heap EXCEPT ![ref] = r.view],
                                  [kind |-> "Testsuite", cursor |-> 0, src |-> r.item])
                /\ yielded' = Append([yielded EXCEPT ![ref] = Append(@, r.item)], <<>>)
                /\ lastCall' = [op |-> "next", on |-> ref, stop |-> FALSE,
                                value |-> Len(heap) + 1]
    /\ UNCHANGED <<report, doc, pageVars>>

\* _Testsuite.__next__: wraps the next case in a _Testcase
SuiteNext(ref) ==
    /\ heap[ref].kind = "Testsuite"
    /\ LET r == iter_next(heap[ref], report)
       IN  IF r.stop
           THEN /\ lastCall' = [op |-> "next", on |-> ref, stop |-> TRUE, value |-> 0]
                /\ UNCHANGED <<heap, yielded>>
           ELSE /\ heap' = [heap EXCEPT ![ref] = r.view]
                /\ yielded' = [yielded EXCEPT ![ref] = Append(@, r.item)]
                /\ lastCall' = [op |-> "next", on |-> ref, stop |-> FALSE,
                                value |-> r.item]
    /\ UNCHANGED <<report, doc, pageVars>>

\* ------------------------------------------------------------ _Testcase
status_by_truthiness(case) ==
    IF case.result \in {NoResult, EmptyResult} THEN "Passed" ELSE "Failed"

status(case) == IF case.result = NoResult THEN "Passed" ELSE "Failed"

\* status() of a _Testcase a suite view has yielded
Status(ref, k) ==
    /\ heap[ref].kind = "Testsuite"
    /\ k \in 1..Len(yielded[ref])
    /\ lastCall' = [op |-> "status", on |-> yielded[ref][k], stop |-> FALSE,
                    value |-> status(yielded[ref][k])]
    /\ UNCHANGED <<report, heap, doc, yielded, pageVars>>

\* ------------------------------------------------------- specifications
Case(i, j, r) == [classname |-> i, name |-> j, result |-> r]

\* a ReportPage over a document with any counters and no suites
InitReport ==
    /\ report \in [tests : Totals, skipped : Counts, failures : Counts,
                   errors : Counts, suites : {<<>>},
                   name : {"pytest"}, path : {"report.xml"}]
    /\ InitPage
    /\ InitViews

NextReport ==
    \/ \E fault \in Faults \cup {NoFault} : Enter(fault)
    \/ \E exc \in Excs : Exit(exc)
    \/ AsDict

SpecReport == InitReport /\ [][NextReport]_vars

\* the views over a document with up to MaxSuites suites of up to MaxCases
\* cases each
Shapes == SeqsUpTo(0..MaxCases, MaxSuites)

InitIter ==
    /\ \E shape \in Shapes :
         report = [tests |-> 0, skipped |-> 0, failures |-> 0, errors |-> 0,
                   name |-> "pytest", path |-> "report.xml",
                   suites |-> [i \in 1..Len(shape) |->
                                 [j \in 1..shape[i] |-> Case(i, j, NoResult)]]]
    /\ InitPage
    /\ InitViews

NextIter ==
    \/ \E via \in Vias : GetTestsuites(via)
    \/ \E via \in Vias : GetOutcome(via)
    \/ \E via \in Vias : GetName(via)
    \/ \E ref \in 1..Len(heap) : SuitesNext(ref)
    \/ \E ref \in 1..Len(heap) : SuiteNext(ref)

SpecIter == InitIter /\ [][NextIter]_vars

\* the cases of one suite, each with any kind of result
InitStatus ==
    /\ \E rs \in SeqsUpTo(Results, MaxStatusCases) :
         report = [tests |-> 0, skipped |-> 0, failures |-> 0, errors |-> 0,
                   name |-> "pytest", path |-> "report.xml",
                   suites |-> <<[j \in 1..Len(rs) |-> Case(1, j, rs[j])]>>]
    /\ InitPage
    /\ InitViews

NextStatus ==
    \/ \E ref \in 1..Len(heap) : SuitesNext(ref)
    \/ \E ref \in 1..Len(heap) : SuiteNext(ref)
    \/ \E ref \in 1..Len(heap), k \in 1..MaxStatusCases : Status(ref, k)

SpecStatus == InitStatus /\ [][NextStatus]_vars

\* ------------------------------------------------ reading a report back
Char(str, i) == SubSeq(str, i, i)

DigitValue(ch) ==
    CASE ch = "0" -> 0 [] ch = "1" -> 1 [] ch = "2" -> 2 [] ch = "3" -> 3
      [] ch = "4" -> 4 [] ch = "5" -> 5 [] ch = "6" -> 6 [] ch = "7" -> 7
      [] ch = "8" -> 8 [] ch = "9" -> 9 [] OTHER -> -1

AllDigits(str) == \A i \in 1..Len(str) : DigitValue(Char(str, i)) >= 0

RECURSIVE ParseNat(_)
ParseNat(str) ==
    IF Len(str) = 0 THEN 0
    ELSE 10 * ParseNat(SubSeq(str, 1, Len(str) - 1)) + DigitValue(Char(str, Len(str)))

\* str is the decimal literal of the integer v, as str(int) prints it
IsIntLiteral(str, v) ==
    LET neg == Len(str) > 0 /\ Char(str, 1) = "-"
        digits == IF neg THEN SubSeq(str, 2, Len(str)) ELSE str
    IN  /\ Len(digits) > 0
        /\ AllDigits(digits)
        /\ Len(digits) > 1 => Char(digits, 1) # "0"
        /\ neg => ParseNat(digits) > 0
        /\ v = IF neg THEN 0 - ParseNat(digits) ELSE ParseNat(digits)

\* the newline-terminated lines of str; text after the last newline is kept as
\* a last, unterminated line
RECURSIVE LinesFrom(_, _, _)
LinesFrom(str, i, from) ==
    IF i > Len(str)
    THEN IF from > Len(str) THEN <<>> ELSE <<[text |-> SubSeq(str, from, Len(str)), nl |-> FALSE]>>
    ELSE IF Char(str, i) = "\n"
         THEN <<[text |-> SubSeq(str, from, i - 1), nl |-> TRUE]>> \o LinesFrom(str, i + 1, i + 1)
         ELSE LinesFrom(str, i + 1, from)

Lines(str) == LinesFrom(str, 1, 1)

IsField(line, label, v) ==
    LET head == label \o ": "
    IN  /\ line.nl
        /\ Len(line.text) > Len(head)
        /\ SubSeq(line.text, 1, Len(head)) = head
        /\ IsIntLiteral(SubSeq(line.text, Len(head) + 1, Len(line.text)), v)

\* str is the report of a document with these counters
IsReportOf(str, t, s, f, e) ==
    LET ls == Lines(str)
    IN  /\ Len(ls) = 6
        /\ ls[1] = [text |-> "<h1>Test report:</h1>", nl |-> TRUE]
        /\ IsField(ls[2], "Total", t)
        /\ IsField(ls[3], "Passed", t - s - f - e)
        /\ IsField(ls[4], "Failed", f)
        /\ IsField(ls[5], "Skipped", s)
        /\ IsField(ls[6], "Errored", e)

IsReport(str) ==
    IsReportOf(str, report.tests, report.skipped, report.failures, report.errors)

\* ---------------------------------------------------------------- claims

\* C1: as_dict() returns total, skipped, failed and errored verbatim and
\* passed = total - skipped - failed - errored, unclamped: it is negative
\* whenever skipped + failed + errored exceeds total.
C1_PassedIsPlainDifference ==
    "passed" \in DOMAIN snapshot =>
        /\ snapshot.total = report.tests
        /\ snapshot.skipped = report.skipped
        /\ snapshot.failed = report.failures
        /\ snapshot.errored = report.errors
        /\ snapshot.passed + report.skipped + report.failures + report.errors
             = report.tests
        /\ report.skipped + report.failures + report.errors > report.tests
             => snapshot.passed < 0

C1_Witness ==
    /\ "passed" \in DOMAIN snapshot
    /\ report.tests = 1 /\ report.skipped = 2 /\ report.failures = 1
    /\ snapshot.passed = -2

\* C2: after an acquisition that found the buffer empty, content is the title
\* line followed by the five newline-terminated lines Total, Passed, Failed,
\* Skipped, Errored, each carrying the decimal value of its counter; counters
\* 10, 1, 2, 0 give Total 10, Passed 7, Failed 2, Skipped 1, Errored 0.
C2_ReportText ==
    (lastOp = "enter" /\ before = "") =>
        /\ IsReport(content)
        /\ (report.tests = 10 /\ report.skipped = 1 /\ report.failures = 2
            /\ report.errors = 0)
             => content = "<h1>Test report:</h1>\nTotal: 10\nPassed: 7\nFailed: 2\nSkipped: 1\nErrored: 0\n"

C2_Witness ==
    /\ lastOp = "enter" /\ before = ""
    /\ report.tests = 10 /\ report.skipped = 1 /\ report.failures = 2
    /\ report.errors = 0
    /\ content = "<h1>Test report:</h1>\nTotal: 10\nPassed: 7\nFailed: 2\nSkipped: 1\nErrored: 0\n"

\* C3: right after a release the buffer is empty, whatever it held before and
\* whatever exception arguments the release was given.
C3_ExitClears == lastOp = "exit" => content = ""

C3_Witness == lastOp = "exit" /\ before # "" /\ lastExc = "Error" /\ content = ""

\* C4: the content right after every successful acquisition equals the content
\* of the first acquisition, however many releases came in between.
C4_SameContentEveryCycle ==
    lastOp = "enter" => content # "" /\ content = firstContent

C4_Witness ==
    lastOp = "enter" /\ before = "" /\ cycles >= 2 /\ content = firstContent

\* C5: a view yields the elements of its collection in document order, each
\* once; end-of-sequence is signalled only when all of them were yielded, and
\* what a view has yielded never exceeds its collection (no wraparound, no
\* repeat), for empty collections too.
CollectionOf(ref) ==
    IF heap[ref].kind = "Testsuites" THEN [i \in 1..Len(report.suites) |-> i]
    ELSE report.suites[heap[ref].src]

C5_SinglePassExact ==
    /\ \A ref \in 1..Len(heap) :
         heap[ref].kind \in {"Testsuites", "Testsuite"} =>
           /\ Len(yielded[ref]) <= Len(CollectionOf(ref))
           /\ yielded[ref] = SubSeq(CollectionOf(ref), 1, Len(yielded[ref]))
    /\ \A ref \in 1..Len(heap) :
         \* the k-th _Testsuite view a _Testsuites view yields wraps suite k
         heap[ref].kind = "Testsuites" =>
           \A k \in 1..Len(yielded[ref]) :
             \E v \in 1..Len(heap) : heap[v].kind = "Testsuite" /\ heap[v].src = k
    /\ lastCall.op = "next" =>
         IF lastCall.stop THEN yielded[lastCall.on] = CollectionOf(lastCall.on)
         ELSE yielded[lastCall.on] # <<>>

C5_Witness ==
    /\ Len(report.suites) = 2
    /\ yielded[1] = <<1, 2>>
    /\ lastCall.op = "next" /\ lastCall.stop
    /\ heap[lastCall.on].kind = "Testsuite"
    /\ Len(yielded[lastCall.on]) = 2

\* C6 as stated: status() is 'Failed' iff the case carries a non-empty result
\* object; a case whose result is absent or empty is 'Passed'.
C6_FailedIffNonEmptyResult ==
    lastCall.op = "status" =>
        /\ lastCall.value \in {"Passed", "Failed"}
        /\ lastCall.value = "Failed" <=> lastCall.on.result = FullResult

\* C6 amended: status() is one of 'Passed' and 'Failed', and it is 'Failed' iff
\* the case's result is not None: a result object that is present but empty
\* is 'Failed' too.
C6_FailedIffResultPresent ==
    lastCall.op = "status" =>
        /\ lastCall.value \in {"Passed", "Failed"}
        /\ lastCall.value = "Failed" <=> lastCall.on.result # NoResult

C6_Witness ==
    /\ lastCall.op = "status"
    /\ lastCall.on.result = EmptyResult
    /\ lastCall.value = "Failed"

\* C7: an acquisition that finds the buffer non-empty leaves it as it was.
C7_ReenterIsNoOp ==
    (lastOp = "enter" /\ before # "") => content = before

C7_Witness == lastOp = "enter" /\ before # "" /\ depth = 2 /\ content = before

\* C8: after an acquisition whose build raised, the buffer is empty (no partial
\* text is stored), and the acquisition that follows with a working document
\* stores the full report.
C8_RaiseLeavesBufferClean ==
    /\ lastOp = "raise" => content = ""
    /\ (lastOp = "enter" /\ prevOp = "raise") => IsReport(content)

C8_Witness == lastOp = "enter" /\ prevOp = "raise" /\ cycles >= 1 /\ content # ""

\* C9: every access to outcome and to testsuites, through the adapter or the
\* renaming wrapper, returns the object built at construction; no second
\* _Testsuites or _Outcome is ever built, so the view an access returns has
\* already consumed every suite yielded so far; the wrapper replaces only name.
SuitesYielded == Cardinality({v \in 1..Len(heap) : heap[v].kind = "Testsuite"})

C9_BuiltOnce ==
    /\ {v \in 1..Len(heap) : heap[v].kind = "Testsuites"} = {1}
    /\ {v \in 1..Len(heap) : heap[v].kind = "Outcome"} = {2}
    /\ lastCall.op = "testsuites" =>
         /\ lastCall.value = 1
         /\ heap[lastCall.value].cursor = SuitesYielded
    /\ lastCall.op = "outcome" => lastCall.value = 2
    /\ lastCall.op = "name" =>
         lastCall.value = IF lastCall.on = "wrapper" THEN report.path ELSE report.name

C9_Witness ==
    /\ lastCall.op = "testsuites" /\ lastCall.on = "wrapper"
    /\ lastCall.value = 1
    /\ heap[1].cursor = 2

\* C10: acquisitions are not counted: a release empties the buffer although an
\* outer scope is still open, and the buffer is non-empty only when the last
\* ReportPage call was an acquisition.
C10_NotReferenceCounted ==
    /\ (lastOp = "exit" /\ depth > 0) => content = ""
    /\ content # "" => lastOp = "enter"

C10_Witness ==
    /\ lastOp = "exit" /\ prevOp = "enter" /\ depth = 1
    /\ before # "" /\ content = ""

====
